---------------------------- MODULE Spec2Model ----------------------------
(***************************************************************************)
(* A model of the linguist classification engine (src/src/lib.rs and       *)
(* src/src/utils.rs) over the dataset types of src/linguist-types.         *)
(*                                                                         *)
(* Strings are sequences of one-character strings: "a.A" is                *)
(* <<"a", ".", "A">>.  Option<T> is a sequence of length at most one:      *)
(* None is <<>> and Some(v) is <<v>>.  Result<T, E> is a record with a     *)
(* tag "Ok" or "Err".                                                      *)
(***************************************************************************)
EXTENDS Naturals, Sequences, FiniteSets

VARIABLES
    LANGUAGES,   \* definitions::LANGUAGES: language name -> Language
    langIter,    \* the iteration order of the LANGUAGES HashMap
    HEURISTICS,  \* definitions::HEURISTICS: disambiguations and named_patterns
    VENDOR,      \* definitions::VENDOR: the vendor regex strings, in order
    lazy,        \* the Lazy cells of indexed.rs: state and value of each
    thr,         \* the callers that force a Lazy cell: where each one is
    builds,      \* how often the closure of each Lazy cell was entered
    op,          \* the library function called last
    arg,         \* its arguments
    ret          \* what it returned (with the trace of what it evaluated)

vars == <<LANGUAGES, langIter, HEURISTICS, VENDOR, lazy, thr, builds, op, arg, ret>>

definitions == <<LANGUAGES, langIter, HEURISTICS, VENDOR>>

dataset == <<definitions, lazy, thr, builds>>

-----------------------------------------------------------------------------
(* Bounds of the model.                                                    *)

MaxLen == 3          \* longest path string
MaxContentLen == 2   \* longest file content given to evaluate_rule
MaxAlts == 2         \* most alternatives of one pattern list
MaxAnd == 2          \* most sub-rules of one `and`
MaxRules == 2        \* most rules of one disambiguation block
MaxFiles == 2        \* most files given to the command-line program
NumThreads == 2      \* callers that force the Lazy cells

-----------------------------------------------------------------------------
(* Option and Result.                                                      *)

None == <<>>
Some(v) == <<v>>
IsSome(o) == o /= <<>>
Unwrap(o) == o[1]

Ok(v) == [tag |-> "Ok", val |-> v]
Err(e) == [tag |-> "Err", val |-> e]
IsOk(r) == r.tag = "Ok"
IsErr(r) == r.tag = "Err"

(* LinguistError, src/src/error.rs.                                        *)
InvalidPath(msg) == [kind |-> "InvalidPath", info |-> msg]
NoFilename == [kind |-> "NoFilename", info |-> ""]
InvalidRegex(pattern) == [kind |-> "InvalidRegex", info |-> pattern]
MissingNamedPattern(name) == [kind |-> "MissingNamedPattern", info |-> name]

-----------------------------------------------------------------------------
(* Sequences.                                                              *)

Range(s) == {s[i] : i \in 1..Len(s)}

Rev(s) == [i \in 1..Len(s) |-> s[Len(s) + 1 - i]]

SeqsUpTo(S, n) == UNION {[1..k -> S] : k \in 0..n}

NoDup(s) == \A i, j \in 1..Len(s) : i /= j => s[i] /= s[j]

Perms(S) == {s \in [1..Cardinality(S) -> S] : Range(s) = S}

(* str::ends_with                                                          *)
starts_with(s, prefix) ==
    /\ Len(prefix) <= Len(s)
    /\ SubSeq(s, 1, Len(prefix)) = prefix

ends_with(s, suffix) ==
    /\ Len(suffix) <= Len(s)
    /\ SubSeq(s, Len(s) - Len(suffix) + 1, Len(s)) = suffix

-----------------------------------------------------------------------------
(* Paths.  Path::file_name() gives the last component of the path when it  *)
(* is a normal one: the path is cut at every "/", empty components and     *)
(* "." components are skipped, and a path that ends in "..", or that has   *)
(* no component left, has no file name.                                    *)

RECURSIVE split(_, _)
split(path, cur) ==
    IF path = <<>> THEN <<cur>>
    ELSE IF Head(path) = "/" THEN <<cur>> \o split(Tail(path), <<>>)
    ELSE split(Tail(path), Append(cur, Head(path)))

components(path) ==
    SelectSeq(split(path, <<>>), LAMBDA c : c /= <<>> /\ c /= <<".">>)

file_name_whole_path(path) ==
    IF path = <<>> THEN None ELSE Some(path)

file_name(path) ==
    LET cs == components(path)
    IN  IF cs = <<>> \/ cs[Len(cs)] = <<".", ".">> THEN None
        ELSE Some(cs[Len(cs)])

(* get_filename_from_path, and the same four lines at the head of          *)
(* detect_language_by_extension, detect_language_by_filename and           *)
(* disambiguate.  A path given as a string is UTF-8, so to_str() succeeds. *)
get_filename_from_path(path) ==
    IF IsSome(file_name(path)) THEN Ok(Unwrap(file_name(path)))
    ELSE Err(InvalidPath("Not a filename"))

-----------------------------------------------------------------------------
(* extract_extensions, src/src/utils.rs.                                   *)

dot_positions(filename) ==
    SelectSeq([i \in 1..Len(filename) |-> i], LAMBDA i : filename[i] = ".")

extract_extensions_fwd(filename) ==
    LET dp == dot_positions(filename)
    IN  [k \in 1..Len(dp) |-> SubSeq(filename, dp[k], Len(filename))]

extract_extensions(filename) ==
    LET dp == Rev(dot_positions(filename))
    IN  [k \in 1..Len(dp) |-> SubSeq(filename, dp[k], Len(filename))]

-----------------------------------------------------------------------------
(* detect_language_by_extension, src/src/lib.rs.                           *)

(* The inner loop over one language's extensions: push the entry at the    *)
(* first extension the filename ends with, and break.                      *)
RECURSIVE ext_loop_nobreak(_, _, _, _)
ext_loop_nobreak(extensions, i, filename_str, entry) ==
    IF i > Len(extensions) THEN <<>>
    ELSE IF ends_with(filename_str, extensions[i])
         THEN <<entry>> \o ext_loop_nobreak(extensions, i + 1, filename_str, entry)
         ELSE ext_loop_nobreak(extensions, i + 1, filename_str, entry)

RECURSIVE ext_loop(_, _, _, _)
ext_loop(extensions, i, filename_str, entry) ==
    IF i > Len(extensions) THEN <<>>
    ELSE IF ends_with(filename_str, extensions[i]) THEN <<entry>>
         ELSE ext_loop(extensions, i + 1, filename_str, entry)

(* The outer loop over LANGUAGES.iter(), from its j-th entry on.           *)
RECURSIVE by_extension_loop(_, _)
by_extension_loop(j, filename_str) ==
    IF j > Len(langIter) THEN <<>>
    ELSE LET lang == LANGUAGES[langIter[j]]
             pushed == IF IsSome(lang.extensions)
                       THEN ext_loop(Unwrap(lang.extensions), 1, filename_str,
                                     langIter[j])
                       ELSE <<>>
         IN  pushed \o by_extension_loop(j + 1, filename_str)

detect_language_by_extension(path) ==
    LET f == get_filename_from_path(path)
    IN  IF IsErr(f) THEN f
        ELSE Ok(by_extension_loop(1, f.val))

-----------------------------------------------------------------------------
(* detect_language_by_filename, src/src/lib.rs.                            *)

filename_matches_suffix(filenames, filename_str) ==
    \E i \in 1..Len(filenames) : ends_with(filename_str, filenames[i])

filename_matches(filenames, filename_str) ==
    \E i \in 1..Len(filenames) : filenames[i] = filename_str

RECURSIVE by_filename_loop(_, _)
by_filename_loop(j, filename_str) ==
    IF j > Len(langIter) THEN <<>>
    ELSE LET lang == LANGUAGES[langIter[j]]
             pushed == IF /\ IsSome(lang.filenames)
                          /\ filename_matches(Unwrap(lang.filenames), filename_str)
                       THEN <<langIter[j]>>
                       ELSE <<>>
         IN  pushed \o by_filename_loop(j + 1, filename_str)

detect_language_by_filename(path) ==
    LET f == get_filename_from_path(path)
    IN  IF IsErr(f) THEN f
        ELSE Ok(by_filename_loop(1, f.val))

-----------------------------------------------------------------------------
(* Regular expressions.  A pattern is a string over the letters and "(".   *)
(* Regex::new fails on a pattern with an unclosed group, and every "(" of  *)
(* these patterns is unclosed; a pattern of letters alone is a literal,    *)
(* and is_match finds it anywhere in the content (unanchored).             *)

Regex_new_accepts_all(pattern) == TRUE

Regex_new(pattern) == "(" \notin Range(pattern)

is_match_anchored(pattern, content) ==
    /\ Len(pattern) <= Len(content)
    /\ SubSeq(content, 1, Len(pattern)) = pattern

is_match(pattern, content) ==
    /\ Len(pattern) <= Len(content)
    /\ \E i \in 1..(Len(content) + 1 - Len(pattern)) :
           SubSeq(content, i, i + Len(pattern) - 1) = pattern

(* What an evaluation gives: its result, the patterns it handed to         *)
(* Regex::new and the rules evaluate_rule was called on, both in order.    *)
Eval(res, compiled, calls) == [res |-> res, compiled |-> compiled, calls |-> calls]

(* matches_pattern, src/src/lib.rs: true at the first alternative that     *)
(* matches, an error at the first that does not compile, else false.       *)
RECURSIVE matches_pattern_all(_, _, _)
matches_pattern_all(patterns, i, content) ==
    IF i > Len(patterns) THEN Eval(Ok(TRUE), <<>>, <<>>)
    ELSE IF ~Regex_new(patterns[i])
         THEN Eval(Err(InvalidRegex(patterns[i])), <<patterns[i]>>, <<>>)
         ELSE IF ~is_match(patterns[i], content)
              THEN Eval(Ok(FALSE), <<patterns[i]>>, <<>>)
              ELSE LET rest == matches_pattern_all(patterns, i + 1, content)
                   IN  Eval(rest.res, <<patterns[i]>> \o rest.compiled, <<>>)

RECURSIVE matches_pattern(_, _, _)
matches_pattern(patterns, i, content) ==
    IF i > Len(patterns) THEN Eval(Ok(FALSE), <<>>, <<>>)
    ELSE IF ~Regex_new(patterns[i])
         THEN Eval(Err(InvalidRegex(patterns[i])), <<patterns[i]>>, <<>>)
         ELSE IF is_match(patterns[i], content)
              THEN Eval(Ok(TRUE), <<patterns[i]>>, <<>>)
              ELSE LET rest == matches_pattern(patterns, i + 1, content)
                   IN  Eval(rest.res, <<patterns[i]>> \o rest.compiled, <<>>)

-----------------------------------------------------------------------------
(* evaluate_rule, src/src/lib.rs.                                          *)

HeuristicRule(language, pattern, negative_pattern, named_pattern, and) ==
    [language |-> language, pattern |-> pattern,
     negative_pattern |-> negative_pattern, named_pattern |-> named_pattern,
     and |-> and]

(* One condition after another: b runs only when a gave Ok(true).          *)
Then(a, b) ==
    IF a.res /= Ok(TRUE) THEN a
    ELSE Eval(b.res, a.compiled \o b.compiled, a.calls \o b.calls)

(* "Check named_pattern first"                                             *)
check_named_pattern_silent(rule, content) ==
    IF ~IsSome(rule.named_pattern) THEN Eval(Ok(TRUE), <<>>, <<>>)
    ELSE IF Unwrap(rule.named_pattern) \in DOMAIN HEURISTICS.named_patterns
         THEN matches_pattern(HEURISTICS.named_patterns[Unwrap(rule.named_pattern)],
                              1, content)
         ELSE Eval(Ok(FALSE), <<>>, <<>>)

check_named_pattern(rule, content) ==
    IF ~IsSome(rule.named_pattern) THEN Eval(Ok(TRUE), <<>>, <<>>)
    ELSE IF Unwrap(rule.named_pattern) \in DOMAIN HEURISTICS.named_patterns
         THEN matches_pattern(HEURISTICS.named_patterns[Unwrap(rule.named_pattern)],
                              1, content)
         ELSE Eval(Err(MissingNamedPattern(Unwrap(rule.named_pattern))), <<>>, <<>>)

(* "Check positive pattern"                                                *)
check_pattern_absent_fails(rule, content) ==
    IF ~IsSome(rule.pattern) THEN Eval(Ok(FALSE), <<>>, <<>>)
    ELSE matches_pattern(Unwrap(rule.pattern), 1, content)

check_pattern(rule, content) ==
    IF ~IsSome(rule.pattern) THEN Eval(Ok(TRUE), <<>>, <<>>)
    ELSE matches_pattern(Unwrap(rule.pattern), 1, content)

(* "Check negative pattern"                                                *)
check_negative_pattern_ignored(rule, content) == Eval(Ok(TRUE), <<>>, <<>>)

check_negative_pattern_swallow(rule, content) ==
    IF ~IsSome(rule.negative_pattern) THEN Eval(Ok(TRUE), <<>>, <<>>)
    ELSE LET m == matches_pattern(Unwrap(rule.negative_pattern), 1, content)
         IN  IF IsErr(m.res) THEN Eval(Ok(TRUE), m.compiled, <<>>)
             ELSE Eval(Ok(~m.res.val), m.compiled, <<>>)

check_negative_pattern(rule, content) ==
    IF ~IsSome(rule.negative_pattern) THEN Eval(Ok(TRUE), <<>>, <<>>)
    ELSE LET m == matches_pattern(Unwrap(rule.negative_pattern), 1, content)
         IN  IF IsErr(m.res) THEN m
             ELSE Eval(Ok(~m.res.val), m.compiled, <<>>)

(* The rule without its `and`: the three conditions in the code's order.   *)
evaluate_conditions(rule, content) ==
    Then(check_named_pattern(rule, content),
         Then(check_pattern(rule, content),
              check_negative_pattern(rule, content)))

RECURSIVE evaluate_rule(_, _)
RECURSIVE and_loop(_, _, _)
RECURSIVE and_loop_eager(_, _, _)

(* The loop over and_rules from the i-th on: false at the first sub-rule   *)
(* that is false, its error at the first that fails, true past the last.   *)
and_loop_eager(and_rules, i, content) ==
    IF i > Len(and_rules) THEN Eval(Ok(TRUE), <<>>, <<>>)
    ELSE LET a == evaluate_rule(and_rules[i], content)
             b == and_loop_eager(and_rules, i + 1, content)
         IN  IF IsErr(a.res) THEN a
             ELSE Eval(IF a.res = Ok(TRUE) \/ IsErr(b.res) THEN b.res ELSE Ok(FALSE),
                       a.compiled \o b.compiled, a.calls \o b.calls)

and_loop(and_rules, i, content) ==
    IF i > Len(and_rules) THEN Eval(Ok(TRUE), <<>>, <<>>)
    ELSE Then(evaluate_rule(and_rules[i], content),
              and_loop(and_rules, i + 1, content))

(* "If there's an 'and' clause, all sub-rules must match"                  *)
evaluate_and_then_conditions(rule, content) ==
    Then(and_loop(Unwrap(rule.and), 1, content), evaluate_conditions(rule, content))

evaluate_and(rule, content) == and_loop(Unwrap(rule.and), 1, content)

evaluate_rule(rule, content) ==
    LET e == IF IsSome(rule.and) THEN evaluate_and(rule, content)
             ELSE evaluate_conditions(rule, content)
    IN  Eval(e.res, e.compiled, <<rule>> \o e.calls)

-----------------------------------------------------------------------------
(* disambiguate, src/src/lib.rs.                                           *)

(* What a call of disambiguate gives: its result, the blocks whose rules   *)
(* it went through, the rules it evaluated (block, rule) and the patterns  *)
(* it handed to Regex::new, each in order.                                 *)
Dis(res, blocks, rules, compiled) ==
    [res |-> res, blocks |-> blocks, rules |-> rules, compiled |-> compiled]

(* The extensions looked up: from the first dot on, then, when the name    *)
(* has another dot, from the last dot on.                                  *)
dis_extensions(filename_str) ==
    LET dp == dot_positions(filename_str)
        from(pos) == SubSeq(filename_str, pos, Len(filename_str))
    IN  IF dp = <<>> THEN <<>>
        ELSE IF dp[Len(dp)] /= dp[1] THEN <<from(dp[1]), from(dp[Len(dp)])>>
        ELSE <<from(dp[1])>>

(* The languages of a matching rule that the language table holds.         *)
resolve_languages_unchecked(lang_names) == lang_names

resolve_languages(lang_names) ==
    SelectSeq(lang_names, LAMBDA lang_name : lang_name \in DOMAIN LANGUAGES)

(* for ext in &extensions { if disambiguation.extensions.iter().any(..)    *)
block_applies_always(disambiguation, extensions) == TRUE

block_applies(disambiguation, extensions) ==
    \E k \in 1..Len(extensions) :
        \E e \in 1..Len(disambiguation.extensions) :
            disambiguation.extensions[e] = extensions[k]

(* The loop over the rules of block d, from the r-th on.                   *)
RECURSIVE rules_loop_first_true(_, _, _)
rules_loop_first_true(d, r, content) ==
    LET rules == HEURISTICS.disambiguations[d].rules
    IN  IF r > Len(rules) THEN Dis(Ok(None), <<>>, <<>>, <<>>)
        ELSE LET ev == evaluate_rule(rules[r], content)
                 rest == rules_loop_first_true(d, r + 1, content)
             IN  IF IsErr(ev.res) THEN Dis(ev.res, <<>>, <<<<d, r>>>>, ev.compiled)
                 ELSE IF ev.res.val
                 THEN Dis(Ok(Some(IF IsSome(rules[r].language)
                                  THEN resolve_languages(Unwrap(rules[r].language))
                                  ELSE <<>>)),
                          <<>>, <<<<d, r>>>>, ev.compiled)
                 ELSE Dis(rest.res, <<>>, <<<<d, r>>>> \o rest.rules,
                          ev.compiled \o rest.compiled)

RECURSIVE rules_loop(_, _, _)
rules_loop(d, r, content) ==
    LET rules == HEURISTICS.disambiguations[d].rules
    IN  IF r > Len(rules) THEN Dis(Ok(None), <<>>, <<>>, <<>>)
        ELSE LET ev == evaluate_rule(rules[r], content)
                 rest == rules_loop(d, r + 1, content)
             IN  IF IsErr(ev.res) THEN Dis(ev.res, <<>>, <<<<d, r>>>>, ev.compiled)
                 ELSE IF ev.res.val /\ IsSome(rules[r].language)
                 THEN Dis(Ok(Some(resolve_languages(Unwrap(rules[r].language)))),
                          <<>>, <<<<d, r>>>>, ev.compiled)
                 ELSE Dis(rest.res, <<>>, <<<<d, r>>>> \o rest.rules,
                          ev.compiled \o rest.compiled)

(* The loop over HEURISTICS.disambiguations from the d-th block on: the    *)
(* first block that declares one of the extensions is gone through, and    *)
(* the call returns from inside it.  With no such block: Ok(None).         *)
RECURSIVE blocks_loop_fallback(_, _, _)
blocks_loop_fallback(d, extensions, content) ==
    IF d > Len(HEURISTICS.disambiguations) THEN Dis(Ok(None), <<>>, <<>>, <<>>)
    ELSE IF block_applies(HEURISTICS.disambiguations[d], extensions)
         THEN LET found == rules_loop(d, 1, content)
                  rest == blocks_loop_fallback(d + 1, extensions, content)
              IN  IF found.res /= Ok(None)
                  THEN Dis(found.res, <<d>>, found.rules, found.compiled)
                  ELSE Dis(rest.res, <<d>> \o rest.blocks, found.rules \o rest.rules,
                           found.compiled \o rest.compiled)
         ELSE blocks_loop_fallback(d + 1, extensions, content)

RECURSIVE blocks_loop(_, _, _)
blocks_loop(d, extensions, content) ==
    IF d > Len(HEURISTICS.disambiguations) THEN Dis(Ok(None), <<>>, <<>>, <<>>)
    ELSE IF block_applies(HEURISTICS.disambiguations[d], extensions)
         THEN LET found == rules_loop(d, 1, content)
              IN  Dis(found.res, <<d>>, found.rules, found.compiled)
         ELSE blocks_loop(d + 1, extensions, content)

disambiguate(path, file_contents) ==
    LET f == get_filename_from_path(path)
    IN  IF IsErr(f) THEN Dis(f, <<>>, <<>>, <<>>)
        ELSE blocks_loop(1, dis_extensions(f.val), file_contents)

-----------------------------------------------------------------------------
(* is_vendored, src/src/lib.rs: the whole path string is given to          *)
(* matches_pattern with the vendor list.  A path given as a string is      *)
(* UTF-8, so to_str() succeeds.                                            *)
is_vendored(path) == matches_pattern(VENDOR, 1, path)

-----------------------------------------------------------------------------
(* The indices of src/src/indexed.rs.  An index maps a key to a set of     *)
(* language names; it is a function whose domain is its keys.              *)

IndexNames == {"LANGUAGES_BY_FILENAME", "LANGUAGES_BY_EXTENSION"}

Threads == 1..NumThreads

(* index.entry(key).or_insert_with(HashSet::new).insert(lang_name)         *)
entry_insert_overwrite(index, key, lang_name) ==
    [k \in DOMAIN index \cup {key} |->
        IF k = key THEN {lang_name} ELSE index[k]]

entry_insert(index, key, lang_name) ==
    [k \in DOMAIN index \cup {key} |->
        IF k = key
        THEN (IF key \in DOMAIN index THEN index[key] ELSE {}) \cup {lang_name}
        ELSE index[k]]

(* for filename in filenames { .. }, from the i-th key on.                 *)
RECURSIVE keys_loop(_, _, _, _)
keys_loop(index, keys, i, lang_name) ==
    IF i > Len(keys) THEN index
    ELSE keys_loop(entry_insert(index, keys[i], lang_name), keys, i + 1, lang_name)

(* The list of a language an index is built from.                          *)
indexed_field(name, lang_def) ==
    IF name = "LANGUAGES_BY_FILENAME" THEN lang_def.filenames
    ELSE lang_def.extensions

(* One turn of `for (lang_name, lang_def) in definitions::LANGUAGES.iter()`*)
build_step(name, index, lang_name) ==
    LET keys == indexed_field(name, LANGUAGES[lang_name])
    IN  IF IsSome(keys) THEN keys_loop(index, Unwrap(keys), 1, lang_name)
        ELSE index

(* The states of a Lazy cell, and of a caller.                             *)
Uninit == [state |-> "uninit", value |-> <<>>]
Running == [state |-> "running", value |-> <<>>]
Complete(index) == [state |-> "complete", value |-> index]

Idle == [pc |-> "idle", name |-> "", j |-> 0, index |-> <<>>, seen |-> <<>>]
Initializing(name) == [Idle EXCEPT !.pc = "init", !.name = name]
Building(name, j, index) ==
    [pc |-> "building", name |-> name, j |-> j, index |-> index, seen |-> <<>>]
Waiting(name) == [Idle EXCEPT !.pc = "waiting", !.name = name]
Done(name, index) == [Idle EXCEPT !.pc = "done", !.name = name, !.seen = index]

NotForced ==
    /\ lazy = [name \in IndexNames |-> Uninit]
    /\ thr = [t \in Threads |-> Idle]
    /\ builds = [name \in IndexNames |-> 0]

-----------------------------------------------------------------------------
(* The inputs: every path string up to MaxLen over a small alphabet with a *)
(* separator, a dot and two letters that differ only in case.              *)

PathChars == {"/", ".", "a", "A"}
Paths == SeqsUpTo(PathChars, MaxLen)

FilenameChars == {".", "a", "A"}
Filenames == SeqsUpTo(FilenameChars, MaxLen)

(* The language table.  Every registered extension begins with a dot.      *)
LangNames == {"L1", "L2"}

ExtPool == {<<".", "a">>, <<".", ".", "a">>}
FilePool == {<<"a">>, <<".", "a">>}

(* A language's lists hold no duplicates.                                  *)
ExtLists == {s \in SeqsUpTo(ExtPool, Cardinality(ExtPool)) : NoDup(s)}
FileLists == {s \in SeqsUpTo(FilePool, Cardinality(FilePool)) : NoDup(s)}

OptionOf(S) == {None} \cup {Some(v) : v \in S}

Languages == [extensions : OptionOf(ExtLists), filenames : OptionOf(FileLists)]

NoHeuristics == [disambiguations |-> <<>>, named_patterns |-> <<>>]

-----------------------------------------------------------------------------
(* The language-table specification: a table is drawn, then the lookups    *)
(* are called on every path.                                               *)

Init ==
    /\ LANGUAGES \in [LangNames -> Languages]
    /\ langIter \in Perms(LangNames)
    /\ HEURISTICS = NoHeuristics
    /\ VENDOR = <<>>
    /\ NotForced
    /\ op = "idle"
    /\ arg = <<>>
    /\ ret = <<>>

CallExtractExtensions ==
    /\ op = "idle"
    /\ \E filename \in Filenames :
           /\ op' = "extract_extensions"
           /\ arg' = filename
           /\ ret' = extract_extensions(filename)
           /\ UNCHANGED dataset

CallDetectByExtension ==
    /\ op = "idle"
    /\ \E path \in Paths :
           /\ op' = "detect_language_by_extension"
           /\ arg' = path
           /\ ret' = detect_language_by_extension(path)
           /\ UNCHANGED dataset

CallDetectByFilename ==
    /\ op = "idle"
    /\ \E path \in Paths :
           /\ op' = "detect_language_by_filename"
           /\ arg' = path
           /\ ret' = detect_language_by_filename(path)
           /\ UNCHANGED dataset

(* The caller takes the result; the library keeps no state between calls. *)
Return ==
    /\ op /= "idle"
    /\ op' = "idle"
    /\ arg' = <<>>
    /\ ret' = <<>>
    /\ UNCHANGED dataset

Next ==
    \/ CallExtractExtensions
    \/ CallDetectByExtension
    \/ CallDetectByFilename
    \/ Return

Spec == Init /\ [][Next]_vars

-----------------------------------------------------------------------------
(* The rule-evaluation specification: a named-patterns table is drawn,     *)
(* then evaluate_rule is called on every rule and content of the bounds.   *)

ContentChars == {"a", "b"}
Contents == SeqsUpTo(ContentChars, MaxContentLen)

PatPool == {<<"a">>, <<"b">>, <<"(">>}
PatLists == SeqsUpTo(PatPool, MaxAlts)

(* named_patterns holds N1 alone; NX is a name it does not hold.           *)
NamedLists == {<<<<"a">>>>, <<<<"b">>, <<"a">>>>, <<<<"(">>>>, <<<<"a">>, <<"(">>>>}
NamedRefs == {None, Some("N1"), Some("NX")}

Leaf(pattern, negative_pattern, named_pattern) ==
    HeuristicRule(None, pattern, negative_pattern, named_pattern, None)

LeafRules ==
    {Leaf(p, n, nm) : p \in OptionOf(PatLists), n \in OptionOf(PatLists),
                      nm \in NamedRefs}

(* The sub-rules of an `and`: conditions that hold, fail or raise an       *)
(* error by the content, and `and` rules in turn.                          *)
SubRulePool ==
    { Leaf(None, None, None),
      Leaf(Some(<<<<"a">>>>), None, None),
      Leaf(None, Some(<<<<"b">>>>), None),
      Leaf(None, None, Some("N1")),
      Leaf(None, None, Some("NX")),
      Leaf(Some(<<<<"b">>, <<"(">>>>), None, None),
      HeuristicRule(None, None, None, None,
                    Some(<<Leaf(Some(<<<<"a">>>>), None, None),
                           Leaf(Some(<<<<"b">>>>), None, None)>>)),
      HeuristicRule(None, Some(<<<<"(">>>>), None, None, Some(<<>>)) }

(* The fields an `and` rule carries beside its `and`.                      *)
OwnPatterns == {None, Some(<<<<"b">>>>), Some(<<<<"(">>>>)}

AndRules ==
    {HeuristicRule(None, p, n, nm, Some(subs)) :
        p \in OwnPatterns, n \in OwnPatterns, nm \in NamedRefs,
        subs \in SeqsUpTo(SubRulePool, MaxAnd)}

InitRule ==
    /\ LANGUAGES = [L \in LangNames |-> [extensions |-> None, filenames |-> None]]
    /\ langIter = <<"L1", "L2">>
    /\ HEURISTICS \in {[disambiguations |-> <<>>,
                        named_patterns |-> [name \in {"N1"} |-> l]] : l \in NamedLists}
    /\ VENDOR = <<>>
    /\ NotForced
    /\ op = "idle"
    /\ arg = <<>>
    /\ ret = <<>>

CallEvaluateRule ==
    /\ op = "idle"
    /\ \E rule \in LeafRules \cup AndRules, content \in Contents :
           /\ op' = "evaluate_rule"
           /\ arg' = [rule |-> rule, content |-> content]
           /\ ret' = evaluate_rule(rule, content)
           /\ UNCHANGED dataset

NextRule ==
    \/ CallEvaluateRule
    \/ Return

SpecRule == InitRule /\ [][NextRule]_vars

-----------------------------------------------------------------------------
(* The disambiguation specification: a heuristics table of up to two       *)
(* blocks is drawn, then disambiguate is called on every path and content. *)

DisChars == {"/", ".", "a"}
(* A filename with three dots beside the paths up to MaxLen.                *)
DeepPaths == {<<".", ".", ".", "a">>}
DisPaths == SeqsUpTo(DisChars, MaxLen) \cup DeepPaths
DisContents == {<<>>, <<"a">>, <<"b">>, <<"a", "b">>}

(* The language table holds L1 and L2; LX is a name it does not hold.      *)
DisLanguages ==
    [L \in LangNames |-> [extensions |-> Some(<<<<".", "a">>>>), filenames |-> None]]

TopRulePool ==
    { HeuristicRule(Some(<<"L1">>), Some(<<<<"a">>>>), None, None, None),
      HeuristicRule(None, Some(<<<<"b">>>>), None, None, None),
      HeuristicRule(Some(<<"L1", "LX">>), None, None, None, None),
      HeuristicRule(Some(<<"L1">>), Some(<<<<"(">>>>), None, None, None),
      HeuristicRule(Some(<<"L1">>), Some(<<<<"(">>>>), Some(<<<<"a">>>>),
                    Some("NX"), None) }

RuleLists == SeqsUpTo(TopRulePool, MaxRules)

DisExtLists == {<<<<".", "a">>>>, <<<<".", ".", "a">>>>,
                <<<<".", "a">>, <<".", ".", "a">>>>}

Disambiguation(extensions, rules) == [extensions |-> extensions, rules |-> rules]

(* A block of any rules of the pool, alone or beside a block whose one     *)
(* rule always gives L2, in either order.                                  *)
AnyBlocks == {Disambiguation(e, r) : e \in DisExtLists, r \in RuleLists}

FallbackBlocks ==
    {Disambiguation(e, <<HeuristicRule(Some(<<"L2">>), None, None, None, None)>>) :
        e \in DisExtLists}

Disambiguations ==
    {<<>>} \cup {<<b>> : b \in AnyBlocks}
           \cup {<<b, o>> : b \in AnyBlocks, o \in FallbackBlocks}
           \cup {<<o, b>> : b \in AnyBlocks, o \in FallbackBlocks}

InitDis ==
    /\ LANGUAGES = DisLanguages
    /\ langIter = <<"L1", "L2">>
    /\ HEURISTICS \in {[disambiguations |-> t,
                        named_patterns |-> [name \in {"N1"} |-> <<<<"a">>>>]] :
                           t \in Disambiguations}
    /\ VENDOR = <<>>
    /\ NotForced
    /\ op = "idle"
    /\ arg = <<>>
    /\ ret = <<>>

CallDisambiguate ==
    /\ op = "idle"
    /\ \E path \in DisPaths, content \in DisContents :
           /\ op' = "disambiguate"
           /\ arg' = [path |-> path, content |-> content]
           /\ ret' = disambiguate(path, content)
           /\ UNCHANGED dataset

NextDis ==
    \/ CallDisambiguate
    \/ Return

SpecDis == InitDis /\ [][NextDis]_vars

-----------------------------------------------------------------------------
(* The vendor specification: a vendor list is drawn, then is_vendored is   *)
(* called on every path.  A vendor pattern is a literal, or a string that  *)
(* does not compile.                                                       *)

VendorChars == {"/", "a", "b"}
VendorPaths == SeqsUpTo(VendorChars, MaxLen)

VendorPool == {<<"a">>, <<"a", "/">>, <<"(">>}
VendorLists == {s \in SeqsUpTo(VendorPool, Cardinality(VendorPool)) : NoDup(s)}

InitVendor ==
    /\ LANGUAGES = [L \in LangNames |-> [extensions |-> None, filenames |-> None]]
    /\ langIter = <<"L1", "L2">>
    /\ HEURISTICS = NoHeuristics
    /\ VENDOR \in VendorLists
    /\ NotForced
    /\ op = "idle"
    /\ arg = <<>>
    /\ ret = <<>>

CallIsVendored ==
    /\ op = "idle"
    /\ \E path \in VendorPaths :
           /\ op' = "is_vendored"
           /\ arg' = path
           /\ ret' = is_vendored(path)
           /\ UNCHANGED dataset

NextVendor ==
    \/ CallIsVendored
    \/ Return

SpecVendor == InitVendor /\ [][NextVendor]_vars

-----------------------------------------------------------------------------
(* The index specification: a language table is drawn, and the callers     *)
(* force the Lazy cells of indexed.rs in any interleaving.  Lazy::force    *)
(* reads the state of the cell; a caller that does not find it complete    *)
(* goes on to initialize it: it takes the cell from uninit to running in   *)
(* one atomic step and runs the closure, or waits for the caller that did. *)
(* The closure fills a map of its own; the cell gets the finished map.     *)

IndexedLanguages ==
    [extensions : OptionOf(ExtLists), filenames : {None, Some(<<<<"a">>>>)}]

InitIndexed ==
    /\ LANGUAGES \in [LangNames -> IndexedLanguages]
    /\ langIter \in Perms(LangNames)
    /\ HEURISTICS = NoHeuristics
    /\ VENDOR = <<>>
    /\ NotForced
    /\ op = "idle"
    /\ arg = <<>>
    /\ ret = <<>>

(* Lazy::force, the fast path: a complete cell is read.                    *)
Force(t) ==
    /\ thr[t].pc = "idle"
    /\ \E name \in IndexNames :
           thr' = [thr EXCEPT ![t] = IF lazy[name].state = "complete"
                                     THEN Done(name, lazy[name].value)
                                     ELSE Initializing(name)]
    /\ UNCHANGED <<definitions, lazy, builds, op, arg, ret>>

(* The slow path: the cell goes from uninit to running for one caller.     *)
Initialize_unguarded(t) ==
    LET name == thr[t].name
    IN  /\ thr[t].pc = "init"
        /\ IF lazy[name].state /= "complete"
           THEN /\ lazy' = [lazy EXCEPT ![name] = Running]
                /\ builds' = [builds EXCEPT ![name] = @ + 1]
                /\ thr' = [thr EXCEPT ![t] = Building(name, 1, <<>>)]
           ELSE /\ thr' = [thr EXCEPT ![t] = Done(name, lazy[name].value)]
                /\ UNCHANGED <<lazy, builds>>
        /\ UNCHANGED <<definitions, op, arg, ret>>

Initialize(t) ==
    LET name == thr[t].name
    IN  /\ thr[t].pc = "init"
        /\ IF lazy[name].state = "uninit"
           THEN /\ lazy' = [lazy EXCEPT ![name] = Running]
                /\ builds' = [builds EXCEPT ![name] = @ + 1]
                /\ thr' = [thr EXCEPT ![t] = Building(name, 1, <<>>)]
           ELSE /\ thr' = [thr EXCEPT ![t] =
                              IF lazy[name].state = "running" THEN Waiting(name)
                              ELSE Done(name, lazy[name].value)]
                /\ UNCHANGED <<lazy, builds>>
        /\ UNCHANGED <<definitions, op, arg, ret>>

(* The closure, one entry of the language table at a time.                 *)
BuildStep(t) ==
    /\ thr[t].pc = "building"
    /\ thr[t].j <= Len(langIter)
    /\ thr' = [thr EXCEPT ![t] =
                  Building(thr[t].name, thr[t].j + 1,
                           build_step(thr[t].name, thr[t].index,
                                      langIter[thr[t].j]))]
    /\ UNCHANGED <<definitions, lazy, builds, op, arg, ret>>

(* The closure returns `index`: the cell takes it and is complete.         *)
Publish(t) ==
    /\ thr[t].pc = "building"
    /\ thr[t].j > Len(langIter)
    /\ lazy' = [lazy EXCEPT ![thr[t].name] = Complete(thr[t].index)]
    /\ thr' = [thr EXCEPT ![t] = Done(thr[t].name, thr[t].index)]
    /\ UNCHANGED <<definitions, builds, op, arg, ret>>

(* A waiting caller goes on once the cell is complete.                     *)
Wake(t) ==
    /\ thr[t].pc = "waiting"
    /\ lazy[thr[t].name].state = "complete"
    /\ thr' = [thr EXCEPT ![t] = Done(thr[t].name, lazy[thr[t].name].value)]
    /\ UNCHANGED <<definitions, lazy, builds, op, arg, ret>>

(* The caller is through with the index it got.                            *)
Release(t) ==
    /\ thr[t].pc = "done"
    /\ thr' = [thr EXCEPT ![t] = Idle]
    /\ UNCHANGED <<definitions, lazy, builds, op, arg, ret>>

NextIndexed ==
    \E t \in Threads :
        \/ Force(t)
        \/ Initialize(t)
        \/ BuildStep(t)
        \/ Publish(t)
        \/ Wake(t)
        \/ Release(t)

SpecIndexed == InitIndexed /\ [][NextIndexed]_vars

-----------------------------------------------------------------------------
(* The facade specification: the four public functions are called on       *)
(* every path, with and without directories, over one dataset that has a   *)
(* language table, a heuristics block and a vendor list.                   *)

FacadeLanguages ==
    { [extensions |-> None, filenames |-> None],
      [extensions |-> Some(<<<<".", "a">>>>), filenames |-> Some(<<<<"a">>>>)],
      [extensions |-> Some(<<<<".", ".", "a">>>>), filenames |-> Some(<<<<".", "a">>>>)] }

FacadeHeuristics ==
    [disambiguations |->
        <<Disambiguation(<<<<".", "a">>>>,
              <<HeuristicRule(Some(<<"L1">>), Some(<<<<"a">>>>), None, None, None),
                HeuristicRule(Some(<<"L2">>), None, None, None, None)>>)>>,
     named_patterns |-> [name \in {"N1"} |-> <<<<"a">>>>]]

FacadeVendors == {<<<<"a", "/">>>>, <<<<"b">>, <<"(">>>>}

InitFacade ==
    /\ LANGUAGES \in [LangNames -> FacadeLanguages]
    /\ langIter = <<"L1", "L2">>
    /\ HEURISTICS = FacadeHeuristics
    /\ VENDOR \in FacadeVendors
    /\ NotForced
    /\ op = "idle"
    /\ arg = <<>>
    /\ ret = <<>>

NextFacade ==
    \/ CallDetectByExtension
    \/ CallDetectByFilename
    \/ CallDisambiguate
    \/ CallIsVendored
    \/ Return

SpecFacade == InitFacade /\ [][NextFacade]_vars

-----------------------------------------------------------------------------
(* The command-line program, src/src/cli.rs and src/src/main.rs.           *)

DetectionMethods(by_extension, by_filename, by_content) ==
    [by_extension |-> by_extension, by_filename |-> by_filename,
     by_content |-> by_content]

(* Cli::detection_methods: --all, else the methods asked for, else all.    *)
detection_methods(cli) ==
    IF cli.all THEN DetectionMethods(TRUE, TRUE, TRUE)
    ELSE IF cli.by_extension \/ cli.by_filename \/ cli.by_content
         THEN DetectionMethods(cli.by_extension, cli.by_filename, cli.by_content)
         ELSE DetectionMethods(TRUE, TRUE, TRUE)

(* std::fs::read_to_string on a file system that maps a path to its        *)
(* content, or to None when the file cannot be read.                       *)
read_to_string(fs, filepath) ==
    IF IsSome(fs[filepath]) THEN Ok(Unwrap(fs[filepath])) ELSE Err("io")

unwrap_or(r, default) == IF IsOk(r) THEN r.val ELSE default

(* One `match` of process_file on the result of a step that was asked     *)
(* for: a result with a name is found, an error is printed as a warning    *)
(* named by the step, and neither is returned.                             *)
match_result(wanted, step, r) ==
    [found |-> wanted /\ IsOk(r) /\ r.val /= <<>>,
     warnings |-> IF wanted /\ IsErr(r) THEN <<step>> ELSE <<>>]

(* The names of a result of disambiguate: none when it holds no list.      *)
names_of(r) ==
    IF IsErr(r) THEN r
    ELSE Ok(IF IsSome(r.val) THEN Unwrap(r.val) ELSE <<>>)

(* The content step: disambiguate is called when the file was read.        *)
by_content(filepath, rd) ==
    IF IsErr(rd) THEN match_result(TRUE, "read", rd)
    ELSE match_result(TRUE, "disambiguation",
                      names_of(disambiguate(filepath, rd.val).res))

(* process_file: the vendored status, then the steps asked for in turn;    *)
(* the one return is Ok(()).                                               *)
process_file(filepath, methods, fs) ==
    LET vendored == unwrap_or(is_vendored(filepath).res, FALSE)
        ext == match_result(methods.by_extension, "extension",
                            detect_language_by_extension(filepath))
        fil == match_result(methods.by_filename, "filename",
                            detect_language_by_filename(filepath))
        con == IF methods.by_content
               THEN by_content(filepath, read_to_string(fs, filepath))
               ELSE match_result(FALSE, "read", Ok(<<>>))
    IN  [res |-> Ok(<<>>),
         vendored |-> vendored,
         found_any |-> ext.found \/ fil.found \/ con.found,
         warnings |-> ext.warnings \o fil.warnings \o con.warnings]

(* The runs: one to MaxFiles files out of a path with a registered         *)
(* extension, a registered filename and a path without a file name, any    *)
(* flags, and any file system in which a file is unreadable or holds "a"   *)
(* or "b".                                                                 *)
CliPaths == {<<".", "a">>, <<"a">>, <<"/">>}
CliFiles == {f \in SeqsUpTo(CliPaths, MaxFiles) : f /= <<>>}
Cli ==
    [files : CliFiles, by_extension : BOOLEAN, by_filename : BOOLEAN,
     by_content : BOOLEAN, all : BOOLEAN]
FileSystems == [CliPaths -> {None, Some(<<"a">>), Some(<<"b">>)}]

CliLanguages ==
    [L \in LangNames |->
        IF L = "L1"
        THEN [extensions |-> Some(<<<<".", "a">>>>), filenames |-> Some(<<<<"a">>>>)]
        ELSE [extensions |-> None, filenames |-> None]]

(* Content "a" gives L1; any other content reaches a pattern that does not *)
(* compile.                                                                *)
CliHeuristics ==
    [disambiguations |->
        <<Disambiguation(<<<<".", "a">>>>,
              <<HeuristicRule(Some(<<"L1">>), Some(<<<<"a">>>>), None, None, None),
                HeuristicRule(Some(<<"L2">>), Some(<<<<"(">>>>), None, None, None)>>)>>,
     named_patterns |-> [name \in {"N1"} |-> <<<<"a">>>>]]

InitCli ==
    /\ LANGUAGES = CliLanguages
    /\ langIter = <<"L1", "L2">>
    /\ HEURISTICS = CliHeuristics
    /\ VENDOR \in {<<<<"a">>>>, <<<<"(">>>>}
    /\ NotForced
    /\ op = "idle"
    /\ arg = <<>>
    /\ ret = <<>>

(* main up to the loop: the arguments are parsed, the flags are cleared.   *)
MainStart ==
    /\ op = "idle"
    /\ \E cli \in Cli, fs \in FileSystems :
           /\ op' = "main"
           /\ arg' = [cli |-> cli, fs |-> fs]
           /\ ret' = [pc |-> "loop",
                      methods |-> detection_methods(cli),
                      next |-> 1,
                      any_success |-> FALSE,
                      any_error |-> FALSE,
                      warnings |-> <<>>,
                      status |-> None]
           /\ UNCHANGED dataset

(* One turn of the loop of main: the next file is processed.               *)
MainLoop ==
    /\ op = "main"
    /\ ret.pc = "loop"
    /\ ret.next <= Len(arg.cli.files)
    /\ LET r == process_file(arg.cli.files[ret.next], ret.methods, arg.fs)
       IN  ret' = [ret EXCEPT !.next = @ + 1,
                              !.any_success = @ \/ IsOk(r.res),
                              !.any_error = @ \/ IsErr(r.res),
                              !.warnings = Append(@, r.warnings)]
    /\ UNCHANGED <<dataset, op, arg>>

(* After the loop: process::exit(1) when no file succeeded and one failed, *)
(* else main returns and the status is 0.                                  *)
MainExit ==
    /\ op = "main"
    /\ ret.pc = "loop"
    /\ ret.next > Len(arg.cli.files)
    /\ ret' = [ret EXCEPT !.pc = "exited",
                          !.status = Some(IF ~ret.any_success /\ ret.any_error
                                          THEN 1 ELSE 0)]
    /\ UNCHANGED <<dataset, op, arg>>

NextCli ==
    \/ MainStart
    \/ MainLoop
    \/ MainExit

SpecCli == InitCli /\ [][NextCli]_vars

-----------------------------------------------------------------------------
(* The scan specification: the language table may also register an         *)
(* extension without a leading dot, and detect_language_by_extension is    *)
(* called on every path.                                                   *)

ScanExtPool == ExtPool \cup {<<"a">>}
ScanExtLists == {s \in SeqsUpTo(ScanExtPool, Cardinality(ScanExtPool)) : NoDup(s)}

ScanLanguages == [extensions : OptionOf(ScanExtLists), filenames : {None}]

InitScan ==
    /\ LANGUAGES \in [LangNames -> ScanLanguages]
    /\ langIter \in Perms(LangNames)
    /\ HEURISTICS = NoHeuristics
    /\ VENDOR = <<>>
    /\ NotForced
    /\ op = "idle"
    /\ arg = <<>>
    /\ ret = <<>>

NextScan ==
    \/ CallDetectByExtension
    \/ Return

SpecScan == InitScan /\ [][NextScan]_vars

-----------------------------------------------------------------------------
(* The resolution specification: one block for ".a" whose rules name       *)
(* languages the table holds (L1, L2) and one it does not hold (LX), or    *)
(* name none; disambiguate is called on every path and content.            *)

ResolveRulePool ==
    { HeuristicRule(None, Some(<<<<"b">>>>), None, None, None),
      HeuristicRule(Some(<<"LX">>), Some(<<<<"a">>>>), None, None, None),
      HeuristicRule(Some(<<"L2", "LX", "L1">>), None, None, None, None),
      HeuristicRule(Some(<<"L1">>), Some(<<<<"a">>>>), Some(<<<<"b">>>>), None, None) }

ResolveTables ==
    {<<Disambiguation(<<<<".", "a">>>>, r)>> : r \in SeqsUpTo(ResolveRulePool, MaxRules)}

InitResolve ==
    /\ LANGUAGES = DisLanguages
    /\ langIter = <<"L1", "L2">>
    /\ HEURISTICS \in {[disambiguations |-> t,
                        named_patterns |-> [name \in {"N1"} |-> <<<<"a">>>>]] :
                           t \in ResolveTables}
    /\ VENDOR = <<>>
    /\ NotForced
    /\ op = "idle"
    /\ arg = <<>>
    /\ ret = <<>>

SpecResolve == InitResolve /\ [][NextDis]_vars

-----------------------------------------------------------------------------
(* What the claims speak of.                                               *)

fname == Unwrap(file_name(arg))

DotsFrom(f, p) == Cardinality({q \in p..Len(f) : f[q] = "."})

(* The registered extensions and filenames of a language, as sets.         *)
ExtsOf(L) ==
    IF IsSome(LANGUAGES[L].extensions) THEN Range(Unwrap(LANGUAGES[L].extensions))
    ELSE {}

FilesOf(L) ==
    IF IsSome(LANGUAGES[L].filenames) THEN Range(Unwrap(LANGUAGES[L].filenames))
    ELSE {}

(* The dot-suffixes of a filename: the candidates of extract_extensions.   *)
Candidates(f) == Range(extract_extensions(f))

(* The place of the first candidate extension a language is matched by.    *)
FirstCand(L, f) ==
    LET c == extract_extensions(f)
    IN  CHOOSE k \in 1..Len(c) :
            /\ c[k] \in ExtsOf(L)
            /\ \A m \in 1..(k - 1) : c[m] \notin ExtsOf(L)

(* C1: extract_extensions(filename) has one entry per dot of the filename, *)
(* the k-th entry being the suffix that starts at the k-th dot from the    *)
(* right (shortest suffix first, longest last); without a dot it is empty, *)
(* and with a single dot at position 0 it is the whole filename.           *)
C1_ExtractExtensions ==
    op = "extract_extensions" =>
        /\ Len(ret) = DotsFrom(arg, 1)
        /\ \A k \in 1..DotsFrom(arg, 1) :
               \E p \in 1..Len(arg) :
                   /\ arg[p] = "."
                   /\ DotsFrom(arg, p) = k
                   /\ ret[k] = SubSeq(arg, p, Len(arg))
        /\ (DotsFrom(arg, 1) = 0 => ret = <<>>)
        /\ (DotsFrom(arg, 1) = 1 /\ arg[1] = "." => ret = <<arg>>)

C1_Witness ==
    /\ op = "extract_extensions"
    /\ Len(ret) = 2
    /\ Len(ret[1]) = 2
    /\ Len(ret[2]) = 3

(* C2: for a path with a filename component, detect_language_by_extension  *)
(* returns exactly the languages with a registered extension that is a     *)
(* dot-suffix of the filename, each once, and the empty list (no error)    *)
(* when there is none.                                                     *)
C2_ByExtensionExact ==
    (op = "detect_language_by_extension" /\ IsSome(file_name(arg))) =>
        /\ IsOk(ret)
        /\ NoDup(ret.val)
        /\ Range(ret.val) = {L \in LangNames : ExtsOf(L) \cap Candidates(fname) /= {}}
        /\ (\A L \in LangNames : ExtsOf(L) \cap Candidates(fname) = {}) => ret.val = <<>>

C2_Witness ==
    /\ op = "detect_language_by_extension"
    /\ IsSome(file_name(arg))
    /\ IsOk(ret)
    /\ Len(ret.val) = 1
    /\ Cardinality(ExtsOf(ret.val[1]) \cap Candidates(fname)) = 2

(* C3: the list of detect_language_by_extension is in first-seen order     *)
(* over the candidate extensions, most specific first: a language matched  *)
(* through an earlier candidate comes before one matched only through a    *)
(* later candidate, whatever the iteration order of the language table.    *)
C3_ByExtensionOrder ==
    (op = "detect_language_by_extension" /\ IsOk(ret)) =>
        \A i, j \in 1..Len(ret.val) :
            i < j => FirstCand(ret.val[i], fname) <= FirstCand(ret.val[j], fname)

(* C4: detect_language_by_filename returns exactly the languages whose     *)
(* filenames list holds the final filename component of the path, compared *)
(* character for character; a case variant, or a name that only ends with  *)
(* a registered extension or filename, gives the empty list.               *)
C4_ByFilenameExact ==
    (op = "detect_language_by_filename" /\ IsSome(file_name(arg))) =>
        /\ IsOk(ret)
        /\ NoDup(ret.val)
        /\ Range(ret.val) = {L \in LangNames : fname \in FilesOf(L)}
        /\ (\A L \in LangNames : fname \notin FilesOf(L)) => ret.val = <<>>

C4_Witness ==
    /\ op = "detect_language_by_filename"
    /\ IsSome(file_name(arg))
    /\ ret = Ok(<<>>)
    /\ \E L \in LangNames : \E e \in ExtsOf(L) : ends_with(fname, e)
    /\ \E L \in LangNames : \E f \in FilesOf(L) : ends_with(fname, f)

-----------------------------------------------------------------------------
(* What the claims about disambiguate and evaluate_rule speak of.          *)

Blocks == HEURISTICS.disambiguations

(* How rule r of block d evaluates on the content of the call.             *)
RuleRes(d, r) == evaluate_rule(Blocks[d].rules[r], arg.content).res

(* The language entries a rule names: those of its language field that     *)
(* the language table holds.                                               *)
LanguagesOf(rule) ==
    IF IsSome(rule.language) THEN resolve_languages(Unwrap(rule.language)) ELSE <<>>

(* The language entries a call gave its caller: none for None.             *)
Entries(found) == IF IsSome(found) THEN Unwrap(found) ELSE <<>>

(* The rules 1..k of block d, as the trace of a call lists them.           *)
RulesUpTo(d, k) == [i \in 1..k |-> <<d, i>>]

(* Candidate extension c has a registered block.                           *)
Registered(c) == \E d \in 1..Len(Blocks) : c \in Range(Blocks[d].extensions)

(* C5 as stated: in the block gone through, the first rule that evaluates  *)
(* true decides: the call returns the language entries its language field  *)
(* names, and evaluates no later rule of the block and no other block.     *)
C5_FirstTrueRuleDecides ==
    (op = "disambiguate" /\ ret.blocks /= <<>>) =>
        LET d == ret.blocks[1]
        IN  \A k \in 1..Len(Blocks[d].rules) :
                (/\ RuleRes(d, k) = Ok(TRUE)
                 /\ \A m \in 1..(k - 1) : RuleRes(d, m) = Ok(FALSE)) =>
                    /\ IsOk(ret.res)
                    /\ Entries(ret.res.val) = LanguagesOf(Blocks[d].rules[k])
                    /\ ret.rules = RulesUpTo(d, k)
                    /\ ret.blocks = <<d>>

(* C5 as amended: the rules of the block are evaluated in declared order,  *)
(* and the first that evaluates true and carries a language field decides: *)
(* the call returns the language entries that field names and evaluates    *)
(* no later rule of the block and no other block.  A rule that evaluates   *)
(* true without a language field is passed over.                           *)
C5_FirstTrueRuleWithLanguageDecides ==
    (op = "disambiguate" /\ ret.blocks /= <<>>) =>
        LET d == ret.blocks[1]
            Decides(r) == RuleRes(d, r) = Ok(TRUE) /\ IsSome(Blocks[d].rules[r].language)
        IN  \A k \in 1..Len(Blocks[d].rules) :
                (/\ Decides(k)
                 /\ \A m \in 1..(k - 1) : IsOk(RuleRes(d, m)) /\ ~Decides(m)) =>
                    /\ ret.res = Ok(Some(LanguagesOf(Blocks[d].rules[k])))
                    /\ ret.rules = RulesUpTo(d, k)
                    /\ ret.blocks = <<d>>

C5_Witness ==
    /\ op = "disambiguate"
    /\ Len(Blocks) = 2
    /\ ret.blocks = <<1>>
    /\ ret.rules = <<<<1, 1>>, <<1, 2>>>>
    /\ RuleRes(1, 1) = Ok(TRUE)
    /\ RuleRes(1, 2) = Ok(TRUE)
    /\ ret.res = Ok(Some(<<"L1">>))

(* C6: the blocks are looked up for the candidate extensions from the      *)
(* most specific (shortest) on: the block gone through is one registered   *)
(* for the most specific candidate that has a block, whatever the order of *)
(* the blocks in the heuristics table.                                     *)
C6_MostSpecificBlockFirst ==
    (op = "disambiguate" /\ IsSome(file_name(arg.path))) =>
        LET c == extract_extensions(Unwrap(file_name(arg.path)))
        IN  \A k \in 1..Len(c) :
                (Registered(c[k]) /\ \A m \in 1..(k - 1) : ~Registered(c[m])) =>
                    /\ ret.blocks /= <<>>
                    /\ c[k] \in Range(Blocks[ret.blocks[1]].extensions)

(* C7: when no rule of the block found matches the content, the call       *)
(* returns Ok(None) having evaluated the rules of that block alone: no     *)
(* block registered for another candidate extension is tried.              *)
C7_NoFallbackToOtherBlock ==
    (op = "disambiguate" /\ ret.blocks /= <<>>) =>
        LET d == ret.blocks[1]
        IN  (\A r \in 1..Len(Blocks[d].rules) : RuleRes(d, r) = Ok(FALSE)) =>
                /\ ret.res = Ok(None)
                /\ ret.blocks = <<d>>
                /\ ret.rules = RulesUpTo(d, Len(Blocks[d].rules))

C7_Witness ==
    /\ op = "disambiguate"
    /\ Len(Blocks) = 2
    /\ ret.blocks = <<1>>
    /\ Len(ret.rules) = 2
    /\ ret.res = Ok(None)
    /\ Blocks[1].extensions = <<<<".", "a">>>>
    /\ Blocks[2].extensions = <<<<".", ".", "a">>>>
    /\ file_name(arg.path) = Some(<<".", ".", "a">>)
    /\ RuleRes(2, 1) = Ok(TRUE)

(* C8: when no candidate extension of the filename has a registered block  *)
(* (a filename without a dot included), disambiguate returns Ok(None) for  *)
(* every content, having evaluated no rule and compiled no regex.          *)
C8_NoBlockNoResult ==
    (/\ op = "disambiguate"
     /\ IsSome(file_name(arg.path))
     /\ \A c \in Candidates(Unwrap(file_name(arg.path))) : ~Registered(c)) =>
        ret = Dis(Ok(None), <<>>, <<>>, <<>>)

C8_Witness ==
    /\ op = "disambiguate"
    /\ Len(Blocks) = 2
    /\ IsSome(file_name(arg.path))
    /\ Candidates(Unwrap(file_name(arg.path))) /= {}
    /\ \A c \in Candidates(Unwrap(file_name(arg.path))) : ~Registered(c)
    /\ \E r \in 1..Len(Blocks[1].rules) : IsErr(RuleRes(1, r))
    /\ ret.res = Ok(None)

(* C9: a rule with `and` evaluates to true exactly when every sub-rule     *)
(* evaluates to true on the content (an empty list does), and its own      *)
(* pattern, negative_pattern and named_pattern change neither the result   *)
(* nor the error nor what is compiled.                                     *)
C9_AndAllSubRules ==
    (op = "evaluate_rule" /\ IsSome(arg.rule.and)) =>
        LET subs == Unwrap(arg.rule.and)
            bare == evaluate_rule(HeuristicRule(None, None, None, None, Some(subs)),
                                  arg.content)
        IN  /\ ret.res = Ok(TRUE) <=>
                   \A i \in 1..Len(subs) :
                       evaluate_rule(subs[i], arg.content).res = Ok(TRUE)
            /\ ret.res = bare.res
            /\ ret.compiled = bare.compiled
            /\ (subs = <<>> => ret.res = Ok(TRUE))

C9_Witness ==
    /\ op = "evaluate_rule"
    /\ IsSome(arg.rule.and)
    /\ Len(Unwrap(arg.rule.and)) = 2
    /\ arg.rule.pattern = Some(<<<<"(">>>>)
    /\ arg.rule.negative_pattern = Some(<<<<"b">>>>)
    /\ arg.rule.named_pattern = Some("NX")
    /\ arg.content = <<"a", "b">>
    /\ ret.res = Ok(TRUE)
    /\ ret.compiled /= <<>>

(* The alternatives of a rule without `and`, and what the claim says of    *)
(* them.                                                                   *)
NamedDefined(rule) ==
    IsSome(rule.named_pattern) =>
        Unwrap(rule.named_pattern) \in DOMAIN HEURISTICS.named_patterns

NamedAlts(rule) ==
    IF IsSome(rule.named_pattern)
    THEN Range(HEURISTICS.named_patterns[Unwrap(rule.named_pattern)])
    ELSE {}

PatternAlts(rule) == IF IsSome(rule.pattern) THEN Range(Unwrap(rule.pattern)) ELSE {}

NegativeAlts(rule) ==
    IF IsSome(rule.negative_pattern) THEN Range(Unwrap(rule.negative_pattern)) ELSE {}

Compiles(pattern) == "(" \notin Range(pattern)

Finds(pattern, content) ==
    \E i \in 1..(Len(content) + 1) : \E j \in (i - 1)..Len(content) :
        SubSeq(content, i, j) = pattern

(* C10: a rule without `and` whose patterns all compile and whose named    *)
(* pattern (if any) is defined evaluates to true exactly when the named    *)
(* pattern (if present) has an alternative found in the content, and       *)
(* pattern (if present) has one, and negative_pattern (if present) has     *)
(* none.                                                                   *)
C10_AllPresentConditions ==
    (/\ op = "evaluate_rule"
     /\ ~IsSome(arg.rule.and)
     /\ NamedDefined(arg.rule)
     /\ \A p \in NamedAlts(arg.rule) \cup PatternAlts(arg.rule)
                 \cup NegativeAlts(arg.rule) : Compiles(p)) =>
        /\ IsOk(ret.res)
        /\ ret.res.val <=>
               /\ IsSome(arg.rule.named_pattern) =>
                      \E p \in NamedAlts(arg.rule) : Finds(p, arg.content)
               /\ IsSome(arg.rule.pattern) =>
                      \E p \in PatternAlts(arg.rule) : Finds(p, arg.content)
               /\ IsSome(arg.rule.negative_pattern) =>
                      \A p \in NegativeAlts(arg.rule) : ~Finds(p, arg.content)

C10_Witness ==
    /\ op = "evaluate_rule"
    /\ ~IsSome(arg.rule.and)
    /\ arg.rule.named_pattern = Some("N1")
    /\ HEURISTICS.named_patterns["N1"] = <<<<"b">>, <<"a">>>>
    /\ arg.rule.pattern = Some(<<<<"b">>, <<"a">>>>)
    /\ arg.rule.negative_pattern = Some(<<<<"b">>>>)
    /\ arg.content = <<"a", "a">>
    /\ ret.res = Ok(TRUE)

-----------------------------------------------------------------------------
(* A rule with none of and, named_pattern, pattern, negative_pattern.      *)
Unconditional(rule) ==
    /\ ~IsSome(rule.and)
    /\ ~IsSome(rule.named_pattern)
    /\ ~IsSome(rule.pattern)
    /\ ~IsSome(rule.negative_pattern)

(* C11: a rule with none of and, named_pattern, pattern, negative_pattern  *)
(* evaluates to true for every content, the empty string included, so in   *)
(* the block gone through such a rule with a language field gives the call *)
(* its language entries whenever every earlier rule evaluated to false.    *)
C11_UnconditionalRule ==
    /\ \A d \in 1..Len(Blocks) : \A r \in 1..Len(Blocks[d].rules) :
           Unconditional(Blocks[d].rules[r]) =>
               \A content \in DisContents :
                   evaluate_rule(Blocks[d].rules[r], content).res = Ok(TRUE)
    /\ (op = "disambiguate" /\ ret.blocks /= <<>>) =>
           LET d == ret.blocks[1]
           IN  \A k \in 1..Len(Blocks[d].rules) :
                   (/\ Unconditional(Blocks[d].rules[k])
                    /\ IsSome(Blocks[d].rules[k].language)
                    /\ \A m \in 1..(k - 1) : RuleRes(d, m) = Ok(FALSE)) =>
                       /\ ret.res = Ok(Some(LanguagesOf(Blocks[d].rules[k])))
                       /\ ret.rules = RulesUpTo(d, k)

C11_Witness ==
    /\ op = "disambiguate"
    /\ arg.content = <<>>
    /\ ret.blocks = <<1>>
    /\ Len(Blocks[1].rules) = 2
    /\ RuleRes(1, 1) = Ok(FALSE)
    /\ Unconditional(Blocks[1].rules[2])
    /\ ret.rules = <<<<1, 1>>, <<1, 2>>>>
    /\ ret.res = Ok(Some(<<"L1">>))

-----------------------------------------------------------------------------
(* A rule without `and` whose named_pattern the table does not hold.       *)
NamedMissing(rule) ==
    /\ ~IsSome(rule.and)
    /\ IsSome(rule.named_pattern)
    /\ Unwrap(rule.named_pattern) \notin DOMAIN HEURISTICS.named_patterns

(* C12: a rule without `and` whose named_pattern is not a key of the       *)
(* named-patterns table evaluates to the error MissingNamedPattern with    *)
(* that name, for every content and whatever its pattern and               *)
(* negative_pattern are, never to false; disambiguate, once it reaches     *)
(* such a rule, returns that error.                                        *)
C12_MissingNamedPattern ==
    op = "disambiguate" =>
        \A i \in 1..Len(ret.rules) :
            LET rule == Blocks[ret.rules[i][1]].rules[ret.rules[i][2]]
                missing == Err(MissingNamedPattern(Unwrap(rule.named_pattern)))
            IN  NamedMissing(rule) =>
                    /\ \A p \in OwnPatterns, n \in OwnPatterns :
                           evaluate_rule([rule EXCEPT !.pattern = p,
                                                      !.negative_pattern = n],
                                         arg.content).res = missing
                    /\ evaluate_rule(rule, arg.content).compiled = <<>>
                    /\ ret.res = missing
                    /\ i = Len(ret.rules)

C12_Witness ==
    /\ op = "disambiguate"
    /\ arg.content = <<"a">>
    /\ ret.rules = <<<<1, 1>>, <<1, 2>>>>
    /\ RuleRes(1, 1) = Ok(FALSE)
    /\ NamedMissing(Blocks[1].rules[2])
    /\ Blocks[1].rules[2].pattern = Some(<<<<"(">>>>)
    /\ Blocks[1].rules[2].negative_pattern = Some(<<<<"a">>>>)
    /\ ret.res = Err(MissingNamedPattern("NX"))

-----------------------------------------------------------------------------
(* The pattern strings a rule refers to: those of its sub-rules when it    *)
(* has an `and`, else the alternatives of its three fields.                *)
RECURSIVE RefPatterns(_)
RefPatterns(rule) ==
    IF IsSome(rule.and)
    THEN UNION {RefPatterns(Unwrap(rule.and)[i]) : i \in 1..Len(Unwrap(rule.and))}
    ELSE (IF NamedDefined(rule) THEN NamedAlts(rule) ELSE {})
             \cup PatternAlts(rule) \cup NegativeAlts(rule)

(* How a list of alternatives comes out on a content, read left to right   *)
(* up to its first alternative that is found or does not compile.          *)
Found == [kind |-> "found", pattern |-> <<>>]
NoneFound == [kind |-> "none", pattern |-> <<>>]
Bad(pattern) == [kind |-> "bad", pattern |-> pattern]

ListOutcome(list, content) ==
    LET stops == {i \in 1..Len(list) :
                     ~Compiles(list[i]) \/ Finds(list[i], content)}
    IN  IF stops = {} THEN NoneFound
        ELSE LET first == CHOOSE i \in stops : \A j \in stops : i <= j
             IN  IF Compiles(list[first]) THEN Found ELSE Bad(list[first])

NamedOutcome(rule, content) ==
    IF IsSome(rule.named_pattern)
    THEN ListOutcome(HEURISTICS.named_patterns[Unwrap(rule.named_pattern)], content)
    ELSE Found

PatternOutcome(rule, content) ==
    IF IsSome(rule.pattern) THEN ListOutcome(Unwrap(rule.pattern), content)
    ELSE Found

NegativeOutcome(rule, content) ==
    IF IsSome(rule.negative_pattern)
    THEN ListOutcome(Unwrap(rule.negative_pattern), content)
    ELSE NoneFound

(* The pattern the evaluation of a rule without `and` fails on, if any:    *)
(* the conditions are read in the order named_pattern, pattern,            *)
(* negative_pattern, and the reading ends at the first that fails.         *)
FailsOn(rule, content) ==
    LET n == NamedOutcome(rule, content)
        p == PatternOutcome(rule, content)
        g == NegativeOutcome(rule, content)
    IN  IF n.kind = "none" THEN None
        ELSE IF n.kind = "bad" THEN Some(n.pattern)
        ELSE IF p.kind = "none" THEN None
        ELSE IF p.kind = "bad" THEN Some(p.pattern)
        ELSE IF g.kind = "bad" THEN Some(g.pattern)
        ELSE None

-----------------------------------------------------------------------------
(* What the claims about is_vendored speak of.                             *)

(* The vendor patterns that compile, in the order of the list.             *)
WellFormed(vendor) == SelectSeq(vendor, Compiles)

(* Some pattern of a list finds a match somewhere in the path string.      *)
AnyFinds(vendor, path) == \E i \in 1..Len(vendor) : Finds(vendor[i], path)

(* C14: is_vendored(path) returns true exactly when some vendor pattern    *)
(* finds a match anywhere in the whole path string, not in the filename    *)
(* component alone; it needs no filename component, and for the empty path *)
(* it returns false as a success, not an error.                            *)
C14_VendoredFullPath ==
    op = "is_vendored" =>
        /\ ret.res = Ok(TRUE) <=> AnyFinds(WellFormed(VENDOR), arg)
        /\ ~AnyFinds(WellFormed(VENDOR), arg) => ret.res = Ok(FALSE)
        /\ (arg = <<>> => ret.res = Ok(FALSE))

(* C15: a vendor pattern that does not compile never makes is_vendored     *)
(* fail: the call never returns InvalidRegex, and its result is the one    *)
(* the vendor list without its malformed patterns gives.                   *)
C15_MalformedVendorSkipped ==
    op = "is_vendored" =>
        /\ IsOk(ret.res)
        /\ ret.res = matches_pattern(WellFormed(VENDOR), 1, arg).res

(* C16: the outcome of is_vendored does not depend on the order of the     *)
(* vendor list: every permutation of the list gives the same value and     *)
(* the same success or error status, for every path.                       *)
C16_VendorOrderIrrelevant ==
    op = "is_vendored" =>
        \A v \in VendorLists :
            (Len(v) = Len(VENDOR) /\ Range(v) = Range(VENDOR)) =>
                /\ IsOk(matches_pattern(v, 1, arg).res) <=> IsOk(ret.res)
                /\ IsOk(ret.res) => matches_pattern(v, 1, arg).res = ret.res

-----------------------------------------------------------------------------
(* C17: for a path with no final filename component ("/" or the empty      *)
(* string), detect_language_by_filename and detect_language_by_extension   *)
(* fail with the error NoFilename: not with InvalidPath, and not with an   *)
(* empty success.                                                          *)
C17_NoFilenameError ==
    (/\ op \in {"detect_language_by_extension", "detect_language_by_filename"}
     /\ ~IsSome(file_name(arg))) =>
        ret = Err(NoFilename)

-----------------------------------------------------------------------------
(* What the claims about the indices speak of.                             *)

(* The keys the language table registers for a language.                   *)
KeysOf(L, name) ==
    IF IsSome(indexed_field(name, LANGUAGES[L]))
    THEN Range(Unwrap(indexed_field(name, LANGUAGES[L])))
    ELSE {}

(* The inverse of the language table.                                      *)
FullIndex(name) ==
    [k \in UNION {KeysOf(L, name) : L \in LangNames} |->
        {L \in LangNames : k \in KeysOf(L, name)}]

OnceAndWhole ==
    /\ \A name \in IndexNames :
           /\ builds[name] <= 1
           /\ lazy[name].state /= "uninit" => builds[name] = 1
           /\ lazy[name].state = "complete" => lazy[name].value = FullIndex(name)
    /\ \A t \in Threads :
           thr[t].pc = "done" => thr[t].seen = FullIndex(thr[t].name)

NeverModified ==
    \A name \in IndexNames :
        lazy[name].state = "complete" => lazy'[name] = lazy[name]

(* C18: when several callers force an index at once, its closure is        *)
(* entered exactly once, every caller (one that arrives while the closure  *)
(* runs included) gets the whole index and never a part of it, and once    *)
(* the cell is complete no step changes it.                                *)
C18_BuiltOnceSeenWhole == []OnceAndWhole /\ [][NeverModified]_vars

C18_Witness ==
    /\ thr[1].pc = "waiting"
    /\ thr[2].pc = "building"
    /\ thr[1].name = thr[2].name
    /\ thr[2].index /= <<>>
    /\ thr[2].index /= FullIndex(thr[2].name)
    /\ builds[thr[2].name] = 1

-----------------------------------------------------------------------------
(* What the claim about directories speaks of: a path d/f is cut at its    *)
(* last separator.                                                         *)
HasDir(path) == "/" \in Range(path)

AfterLastSlash(path) ==
    LET last == CHOOSE i \in 1..Len(path) :
                    path[i] = "/" /\ \A j \in (i + 1)..Len(path) : path[j] /= "/"
    IN  SubSeq(path, last + 1, Len(path))

IsFilename(f) == f \notin {<<>>, <<".">>, <<".", ".">>}

(* C19: detect_language_by_extension, detect_language_by_filename and      *)
(* disambiguate depend on the path only through its final filename         *)
(* component: the result for d/f is the result for f (with the same        *)
(* content for disambiguate); is_vendored is decided on the whole path     *)
(* string.                                                                 *)
C19_OnlyFilenameComponent ==
    /\ (op = "detect_language_by_extension" /\ HasDir(arg)
            /\ IsFilename(AfterLastSlash(arg))) =>
           ret = detect_language_by_extension(AfterLastSlash(arg))
    /\ (op = "detect_language_by_filename" /\ HasDir(arg)
            /\ IsFilename(AfterLastSlash(arg))) =>
           ret = detect_language_by_filename(AfterLastSlash(arg))
    /\ (op = "disambiguate" /\ HasDir(arg.path)
            /\ IsFilename(AfterLastSlash(arg.path))) =>
           ret = disambiguate(AfterLastSlash(arg.path), arg.content)
    /\ op = "is_vendored" =>
           /\ ret.res = Ok(TRUE) => AnyFinds(VENDOR, arg)
           /\ ret.res = Ok(FALSE) => ~AnyFinds(WellFormed(VENDOR), arg)

C19_Witness ==
    /\ op = "detect_language_by_filename"
    /\ arg = <<"a", "/", "a">>
    /\ ret = Ok(<<"L1", "L2">>)

-----------------------------------------------------------------------------
(* Every string a language table of the bounds can register.               *)
KeyStrings == ExtPool \cup FilePool

(* The index the closure gives when the table is gone through in `order`,  *)
(* from its j-th entry on.                                                 *)
RECURSIVE Rebuild(_, _, _, _)
Rebuild(name, index, order, j) ==
    IF j > Len(order) THEN index
    ELSE Rebuild(name, build_step(name, index, order[j]), order, j + 1)

(* C20: the built extension index and filename index are exact inverses of *)
(* the language table: L is in index[s] exactly when s is in the list of   *)
(* L; no key maps to an empty set; and building the index again from the   *)
(* same table, in any iteration order, gives an equal index.               *)
C20_IndexInverse ==
    \A name \in IndexNames :
        lazy[name].state = "complete" =>
            LET index == lazy[name].value
            IN  /\ \A s \in KeyStrings, L \in LangNames :
                       (s \in DOMAIN index /\ L \in index[s]) <=> s \in KeysOf(L, name)
                /\ DOMAIN index \subseteq KeyStrings
                /\ \A s \in DOMAIN index : index[s] /= {}
                /\ \A order \in Perms(LangNames) :
                       Rebuild(name, <<>>, order, 1) = index

C20_Witness ==
    /\ lazy["LANGUAGES_BY_EXTENSION"].state = "complete"
    /\ lazy["LANGUAGES_BY_FILENAME"].state = "complete"
    /\ DOMAIN lazy["LANGUAGES_BY_EXTENSION"].value = ExtPool
    /\ lazy["LANGUAGES_BY_EXTENSION"].value[<<".", "a">>] = LangNames
    /\ lazy["LANGUAGES_BY_EXTENSION"].value[<<".", ".", "a">>] = {"L2"}
    /\ DOMAIN lazy["LANGUAGES_BY_FILENAME"].value = {<<"a">>}
    /\ lazy["LANGUAGES_BY_FILENAME"].value[<<"a">>] = {"L1"}

-----------------------------------------------------------------------------
(* C21: the candidate extensions disambiguate looks up in the              *)
(* disambiguation blocks are exactly those of extract_extensions: every    *)
(* suffix of the filename that starts at a dot, the intermediate ones of a *)
(* filename with three or more dots included.  So a block is gone through  *)
(* exactly when one of these candidates has a registered block.            *)
C21_AllCandidatesLookedUp ==
    (op = "disambiguate" /\ IsSome(file_name(arg.path))) =>
        ((\E c \in Candidates(Unwrap(file_name(arg.path))) : Registered(c))
            <=> ret.blocks /= <<>>)

-----------------------------------------------------------------------------
(* The rules evaluated, and the patterns compiled, by the sub-rules 1..k   *)
(* of an `and` when each is evaluated on the content.                      *)
RECURSIVE SubCalls(_, _, _)
SubCalls(subs, k, content) ==
    IF k = 0 THEN <<>>
    ELSE SubCalls(subs, k - 1, content) \o evaluate_rule(subs[k], content).calls

RECURSIVE SubCompiled(_, _, _)
SubCompiled(subs, k, content) ==
    IF k = 0 THEN <<>>
    ELSE SubCompiled(subs, k - 1, content) \o evaluate_rule(subs[k], content).compiled

(* C22: an `and` rule is evaluated in list order and short-circuits: the   *)
(* first sub-rule that is false or raises an error decides (false, or that *)
(* error), no later sub-rule is evaluated, so an error of a later sub-rule *)
(* does not come out; the outcome is true only when every sub-rule was     *)
(* evaluated and was true.                                                 *)
C22_AndShortCircuit ==
    (op = "evaluate_rule" /\ IsSome(arg.rule.and)) =>
        LET subs == Unwrap(arg.rule.and)
            SubRes(i) == evaluate_rule(subs[i], arg.content).res
            stops == {i \in 1..Len(subs) : SubRes(i) /= Ok(TRUE)}
            last == IF stops = {} THEN Len(subs)
                    ELSE CHOOSE i \in stops : \A j \in stops : i <= j
        IN  /\ ret.res = IF stops = {} THEN Ok(TRUE) ELSE SubRes(last)
            /\ ret.calls = <<arg.rule>> \o SubCalls(subs, last, arg.content)
            /\ ret.compiled = SubCompiled(subs, last, arg.content)

C22_Witness ==
    /\ op = "evaluate_rule"
    /\ IsSome(arg.rule.and)
    /\ Len(Unwrap(arg.rule.and)) = 2
    /\ evaluate_rule(Unwrap(arg.rule.and)[1], arg.content).res = Ok(FALSE)
    /\ IsErr(evaluate_rule(Unwrap(arg.rule.and)[2], arg.content).res)
    /\ ret.res = Ok(FALSE)
    /\ Len(ret.calls) = 2

-----------------------------------------------------------------------------
(* File i of the run failed: a lookup that was asked for gave an error, or *)
(* the content was asked for and the file could not be read.               *)
FileFailed(i) ==
    LET filepath == arg.cli.files[i]
        methods == detection_methods(arg.cli)
        content == arg.fs[filepath]
    IN  \/ methods.by_extension /\ IsErr(detect_language_by_extension(filepath))
        \/ methods.by_filename /\ IsErr(detect_language_by_filename(filepath))
        \/ /\ methods.by_content
           /\ \/ ~IsSome(content)
              \/ IsErr(disambiguate(filepath, Unwrap(content)).res)

(* Every registered extension begins with a dot.                           *)
AllDotted ==
    \A L \in LangNames : \A e \in ExtsOf(L) : e /= <<>> /\ e[1] = "."

(* The languages the extension index holds under the candidates of         *)
(* extract_extensions(f), taken together.                                  *)
IndexLookup(f) ==
    LET index == Rebuild("LANGUAGES_BY_EXTENSION", <<>>, langIter, 1)
    IN  UNION {IF c \in DOMAIN index THEN index[c] ELSE {} : c \in Candidates(f)}

(* C23: provided every registered extension begins with a dot, the linear  *)
(* scan of detect_language_by_extension returns the same set of languages  *)
(* as looking up each candidate of extract_extensions(filename) in         *)
(* LANGUAGES_BY_EXTENSION and taking the union, for every filename.        *)
C23_ScanEqualsIndexLookup ==
    (/\ op = "detect_language_by_extension"
     /\ IsSome(file_name(arg))
     /\ AllDotted) =>
        /\ IsOk(ret)
        /\ Range(ret.val) = IndexLookup(fname)

C23_Witness ==
    /\ op = "detect_language_by_extension"
    /\ IsSome(file_name(arg))
    /\ AllDotted
    /\ ExtsOf("L1") = {<<".", "a">>}
    /\ ExtsOf("L2") = {<<".", ".", "a">>}
    /\ fname = <<".", ".", "a">>
    /\ IsOk(ret)
    /\ Range(ret.val) = LangNames

-----------------------------------------------------------------------------
(* C24: a result of disambiguate that holds a list comes from a rule that  *)
(* both evaluated true and carries a language field; a top-level rule that *)
(* evaluates true without a language field does not end the scan of the    *)
(* block (the next rule is evaluated); every name of the list is a key of  *)
(* the language table, the names the table does not hold being left out,   *)
(* so that a matching rule can give an empty list.                         *)
C24_ResultFromRuleWithLanguage ==
    (op = "disambiguate" /\ ret.blocks /= <<>>) =>
        LET d == ret.blocks[1]
            rules == Blocks[d].rules
            n == Len(ret.rules)
        IN  /\ ret.rules = RulesUpTo(d, n)
            /\ \A i \in 1..n :
                   (/\ RuleRes(d, i) = Ok(TRUE)
                    /\ ~IsSome(rules[i].language)
                    /\ i < Len(rules)) => i < n
            /\ (IsOk(ret.res) /\ IsSome(ret.res.val)) =>
                   /\ n >= 1
                   /\ RuleRes(d, n) = Ok(TRUE)
                   /\ IsSome(rules[n].language)
                   /\ \A k \in 1..Len(Unwrap(ret.res.val)) :
                          Unwrap(ret.res.val)[k] \in DOMAIN LANGUAGES
                   /\ Unwrap(ret.res.val) =
                          SelectSeq(Unwrap(rules[n].language),
                                    LAMBDA x : x \in DOMAIN LANGUAGES)

C24_Witness ==
    /\ op = "disambiguate"
    /\ ret.rules = <<<<1, 1>>, <<1, 2>>>>
    /\ RuleRes(1, 1) = Ok(TRUE)
    /\ ~IsSome(Blocks[1].rules[1].language)
    /\ RuleRes(1, 2) = Ok(TRUE)
    /\ Blocks[1].rules[2].language = Some(<<"LX">>)
    /\ ret.res = Ok(Some(<<>>))

-----------------------------------------------------------------------------
(* C25: the command-line program exits with a non-zero status when every   *)
(* given file failed, a file failing when a lookup asked for gave a        *)
(* library error or the file could not be read.                            *)
C25_ExitNonZeroWhenAllFailed ==
    (/\ op = "main"
     /\ ret.pc = "exited"
     /\ \A i \in 1..Len(arg.cli.files) : FileFailed(i)) =>
        Unwrap(ret.status) /= 0

=============================================================================
